---------------------------- MODULE Spec2Model ----------------------------
(***************************************************************************)
(* Model of the RED co-flow stack simulator: the CoFlow class              *)
(* (model_mechanics/model_class.py), its post-processing functions         *)
(* (coFlow_NaCl_outputs.py), the exergy functions (exergy_TCPC.py) and the *)
(* TCPC activity correlation (TCPC.py).                                    *)
(*                                                                         *)
(* Numbers.  The program computes in IEEE doubles; the model computes in   *)
(* integers, each physical quantity in a fixed unit:                       *)
(*   residence times [s]; W, L, x [mm]; d, Hm [1e-6 m];                    *)
(*   concentrations [0.1 mol m-3]; flow rates [1e-10 m3 s-1];              *)
(*   voltages [1e-5 V]; area resistances [1e-6 Ohm m2];                    *)
(*   current density [0.01 A m-2]; salt flux [1e-8 mol s-1 m-2];           *)
(*   water flux [1e-11 m s-1]; dc/dx [0.1 mol m-3 per m];                  *)
(*   power density [1e-4 W m-2]; power [1e-8 W]; exergy [1e-9 W];          *)
(*   efficiencies [0.1 %]; dimensionless numbers (activity coefficients,   *)
(*   logarithms) scaled by LS; mole fractions scaled by XF.                *)
(* Every formula keeps the shape it has in the source; the powers of ten   *)
(* that appear beside it are unit conversions.  The token NaN stands for   *)
(* the non-finite doubles (nan, +inf, -inf) numpy produces, with a         *)
(* warning and no exception, from a logarithm or root of a non-positive    *)
(* number or from a division by zero.                                      *)
(***************************************************************************)
EXTENDS Integers, Sequences, FiniteSets, TLC

\* A non-finite double (nan, +inf, -inf): an integer no quantity of the model
\* reaches, so that it can be compared with the numbers.
NaN == -2000000000

IsNum(v) == v # NaN

AllNum(s) == \A k \in 1..Len(s) : IsNum(s[k])

(***************************************************************************)
(* Fixed-point arithmetic standing for double arithmetic.                  *)
(***************************************************************************)
\* the scale of the dimensionless doubles: v stands for v / LS
LS == 100000

\* the scale of the mole fractions: v stands for v / XF
XF == 1000000

\* ln 2, scaled by LS
Ln2 == 69315

\* a * b / LS without leaving 32 bits
FMul(a, b) == ((a \div 1000) * b) \div 100 + ((a % 1000) * b) \div LS

\* a * b / c without leaving 32 bits (0 < b * |c| < 2^31)
MulDiv(a, b, c) ==
    IF c < 0 THEN ((-a) \div (-c)) * b + (((-a) % (-c)) * b) \div (-c)
             ELSE (a \div c) * b + ((a % c) * b) \div c

\* a * LS / b, b > 0
RECURSIVE FDiv(_, _)
FDiv(a, b) == IF b >= 20000 THEN FDiv(a \div 2, b \div 2) ELSE MulDiv(a, LS, b)

\* |a| \div k with the sign of a (rounds toward zero)
Trunc(a, k) == IF a < 0 THEN -((-a) \div k) ELSE a \div k

\* n = m * 2^k with 2^14 <= m < 2^15
RECURSIVE LnNorm(_, _)
LnNorm(n, k) ==
    IF n >= 32768 THEN LnNorm(n \div 2, k + 1)
    ELSE IF n < 16384 THEN LnNorm(n * 2, k - 1)
    ELSE <<n, k>>

\* 2 * atanh(z), from the odd powers of z up to z^9; z and z2 = z^2 scaled by LS
AtanhSeries(z, z2) ==
    LET z3 == (z * z2) \div LS
        z5 == (z3 * z2) \div LS
        z7 == (z5 * z2) \div LS
        z9 == (z7 * z2) \div LS
    IN  2 * (z + z3 \div 3 + z5 \div 5 + z7 \div 7 + z9 \div 9)

Atanh2(z) == AtanhSeries(z, (z * z) \div LS)

\* LS * ln(m * 2^k / 2^14): ln(m / 2^14) = 2 * atanh((m - 2^14) / (m + 2^14))
LnOf(mk) ==
    (mk[2] + 14) * Ln2 + Atanh2(((mk[1] - 16384) * LS) \div (mk[1] + 16384))

\* LS * ln(n) for an integer n >= 1
LnInt(n) == LnOf(LnNorm(n, 0))

\* np.log(n / d) for n, d > 0, scaled by LS
Log(n, d) == LnInt(n) - LnInt(d)

RECURSIVE Scale2(_, _)
Scale2(e, k) ==
    IF k = 0 THEN e
    ELSE IF k > 0 THEN Scale2(e * 2, k - 1)
    ELSE IF e = 0 THEN 0
    ELSE Scale2(e \div 2, k + 1)

\* exp(r / LS) for 0 <= r < Ln2, scaled by LS: the series up to r^7, by Horner's rule
ExpSeries(r) ==
    LS + FMul(r, LS + FMul(r, LS + FMul(r, LS + FMul(r, LS + FMul(r, LS
       + FMul(r, LS + r \div 7) \div 6) \div 5) \div 4) \div 3) \div 2)

\* 2^k * exp(r / LS)
ExpOf(k, r) == Scale2(ExpSeries(r), k)

\* np.exp(v / LS), scaled by LS: v = k * ln 2 + r, exp(v) = 2^k * exp(r)
Exp(v) == ExpOf(v \div Ln2, v % Ln2)

\* floor of the square root (Newton's iteration)
RECURSIVE SqrtIter(_, _)
SqrtIter(v, x) ==
    LET y == (x + v \div x) \div 2
    IN  IF y >= x THEN x ELSE SqrtIter(v, y)

Sqrt(v) == IF v < 2 THEN v ELSE SqrtIter(v, v)

(***************************************************************************)
(* TCPC.py: class Salt.  I is the ionic strength in 1e-4 mol/L, which is   *)
(* the concentration C/1000 of the callers in the model's unit of C.       *)
(***************************************************************************)
\* Salt(1, 1, 1, 1, 3.0210, 36.1573, 0.8998); b, S, n scaled by LS
MakeNaCl == [zplus |-> 1, zmin |-> 1, vplus |-> 1, vmin |-> 1,
             b |-> 302100, S |-> 3615730, n |-> 89980]

\* Aphi = 0.392, scaled by LS
Aphi == 39200

\* T = 298.15 K, in 0.01 K
SaltT == 29815

\* fgamma of Salt.TCPC, with sq = I**0.5 and bsq = b * I**0.5
DebyeHueckel(self, sq, bsq) ==
    - FMul(Aphi, FDiv(sq, LS + bsq) + FMul(FDiv(2 * LS, self.b), Log(LS + bsq, LS)))

fgamma(self, sq) == DebyeHueckel(self, sq, FMul(self.b, sq))

\* I**(2*n)
IPower(self, I) == IF I = 0 THEN 0 ELSE Exp(FMul(2 * self.n, Log(I, 10000)))

\* gammaSV of Salt.TCPC
gammaSV(self, I) ==
    FMul(MulDiv(self.S, 100, SaltT), IPower(self, I)) \div (self.vplus + self.vmin)

\* Salt.TCPC: the mean activity coefficient, scaled by LS
TCPC(self, I) ==
    Exp((self.zplus * self.zmin) * fgamma(self, Sqrt(I * 10000) * 10) + gammaSV(self, I))

(***************************************************************************)
(* model_class.py: class CoFlow.  An instance is the record of its         *)
(* attributes.  hasMembrane says whether the attributes Raem, Rcem, a,     *)
(* Dnacl, Dw, Hm, Keosm exist (neither membrane branch of __init__ ran:    *)
(* they do not); unset is the set of result attributes that still hold     *)
(* the placeholder None.                                                   *)
(***************************************************************************)
\* R = 8.3143 [J mol-1 K-1], in 0.01 J mol-1 K-1
Rgas == 831

\* Temp = 298.0 [K]
Temp == 298

\* Fad = 96485.0 [C mol-1], in 100 C mol-1
Fad == 965

\* Vw = 18E-6 [m3 mol-1], in 1e-6 m3 mol-1
Vw == 18

\* obstr = 1.65, in 0.01
obstr == 165

\* Lambda = 0.01287 [m2 Ohm-1 mol-1], in 1e-5
Lambda == 1287

IdealName == "Ideal CEM/AEM"

FujifilmName == "Fujifilm CEM/AEM type 10"

\* the membrane attributes set by the branch 'Ideal CEM/AEM'
IdealMembranes ==
    [Raem |-> 100, Rcem |-> 100, a |-> 900, Dnacl |-> 0, Dw |-> 0, Hm |-> 80, Keosm |-> 0]

\* the membrane attributes set by the branch 'Fujifilm CEM/AEM type 10'
FujifilmMembranes ==
    [Raem |-> 177, Rcem |-> 269, a |-> 946, Dnacl |-> 15, Dw |-> 45, Hm |-> 145, Keosm |-> 6]

\* no membrane attribute exists
NoMembranes ==
    [Raem |-> 0, Rcem |-> 0, a |-> 0, Dnacl |-> 0, Dw |-> 0, Hm |-> 0, Keosm |-> 0]

ResultFields ==
    {"cRW", "cSW", "E", "Rcell", "J", "power", "pd_avg", "eta_energy", "eta_thermo"}

\* np.linspace(0, L, intervals): step = L / (intervals - 1), the last point is L
Linspace(L, n) ==
    [k \in 1..n |-> IF k = n THEN L ELSE (k - 1) * (L \div (n - 1))]

\* the exception CoFlow.__init__ raises: L * W * d / t divides by zero
InitRaises(c) == c.tSW = 0 \/ c.tRW = 0

\* CoFlow.__init__
NewCoFlow(c) ==
    LET m == IF c.membranes = FujifilmName THEN FujifilmMembranes
             ELSE IF c.membranes = IdealName THEN IdealMembranes
             ELSE NoMembranes
    IN  [live |-> TRUE,
         tRW |-> c.tRW, tSW |-> c.tSW, W |-> c.W, L |-> c.L, d |-> c.d,
         fSW |-> (c.L * c.W * c.d) \div (c.tSW * 100),
         fRW |-> (c.L * c.W * c.d) \div (c.tRW * 100),
         hasMembrane |-> c.membranes \in {IdealName, FujifilmName},
         Raem |-> m.Raem, Rcem |-> m.Rcem, a |-> m.a, Dnacl |-> m.Dnacl,
         Dw |-> m.Dw, Hm |-> m.Hm, Keosm |-> m.Keosm,
         Uload |-> c.Uload, cSW0 |-> c.cSW0, cRW0 |-> c.cRW0,
         Qzero |-> <<c.cSW0, c.cRW0>>,
         x |-> Linspace(c.L, c.intervals),
         solved |-> FALSE,
         unset |-> ResultFields,
         cRW |-> <<>>, cSW |-> <<>>, E |-> <<>>, Rcell |-> <<>>, J |-> <<>>,
         power |-> 0, pd_avg |-> 0, eta_energy |-> 0, eta_thermo |-> 0]

\* CoFlow.water_ohmic_drop
water_ohmic_drop(self, C) ==
    IF ~IsNum(C) \/ C = 0 THEN NaN
    ELSE (obstr * self.d * 10000) \div (Lambda * C)

\* CoFlow.activity: C * NaCl.TCPC(C / 1000), with the module-level NaCl
activity(salt, C) ==
    IF ~IsNum(C) \/ C < 0 THEN NaN
    ELSE (C * TCPC(salt, C)) \div 10

\* a variant of Nernst: the emf from the sea water activity alone
NernstOfSeaWater(self, aSW, aRW) ==
    LET preF == (self.a * 2 * Rgas * Temp) \div (Fad * 100)
    IN  IF ~IsNum(aSW) \/ ~IsNum(aRW) \/ aSW <= 0 \/ aRW <= 0 THEN NaN
        ELSE FMul(preF, Log(aSW, LS))

\* preF * np.log(aSW / aRW)
Nernst(self, aSW, aRW) ==
    LET preF == (self.a * 2 * Rgas * Temp) \div (Fad * 100)
    IN  IF ~IsNum(aSW) \/ ~IsNum(aRW) \/ aSW <= 0 \/ aRW <= 0 THEN NaN
        ELSE FMul(preF, Log(aSW, aRW))

\* Raem + Rcem + rRW + rSW
CellResistance(self, rRW, rSW) ==
    IF ~IsNum(rRW) \/ ~IsNum(rSW) THEN NaN
    ELSE self.Raem + self.Rcem + rRW + rSW

\* (E - U) / Rcell
CurrentDensity(self, E, Rcell) ==
    IF ~IsNum(E) \/ ~IsNum(Rcell) \/ Rcell = 0 THEN NaN
    ELSE ((E - self.Uload) * 1000) \div Rcell

\* Tnacl = J / Fad + (cSW - cRW) * 2 * Dnacl / Hm
SaltFlux(self, J, cSW, cRW) ==
    MulDiv(J, 10000, Fad) + ((cSW - cRW) * 2 * self.Dnacl) \div self.Hm

\* Tw = - (cSW - cRW) * 2 * Dw * Vw / Hm + Keosm * Vw * J / Fad
WaterFlux(self, J, cSW, cRW) ==
    - (((cSW - cRW) * 2 * self.Dw * Vw) \div self.Hm)
    + MulDiv(self.Keosm * Vw * J, 10, Fad)

\* self.E of solve_system, E of dQdx, at one point
EmfAt(self, salt, cSW, cRW) == Nernst(self, activity(salt, cSW), activity(salt, cRW))

\* self.Rcell of solve_system, Rcell of dQdx, at one point
RcellAt(self, cSW, cRW) ==
    CellResistance(self, water_ohmic_drop(self, cRW), water_ohmic_drop(self, cSW))

\* dcSWdx and dcRWdx from the two fluxes
Balance(self, cSW, cRW, Tnacl, Tw) ==
    << - ((self.W * Tnacl) \div self.fSW)
       + (self.W * ((cSW * Tw) \div 10000)) \div self.fSW,
       ((self.W * Tnacl) \div self.fRW)
       - (self.W * ((cRW * Tw) \div 10000)) \div self.fRW >>

\* the derivatives for a current density J; <<NaN, NaN>> where numpy gives
\* non-finite values
Derivatives(self, cSW, cRW, J) ==
    IF ~IsNum(J) \/ self.fSW = 0 \/ self.fRW = 0 THEN <<NaN, NaN>>
    ELSE Balance(self, cSW, cRW, SaltFlux(self, J, cSW, cRW), WaterFlux(self, J, cSW, cRW))

\* CoFlow.dQdx
dQdx(self, salt, Q) ==
    Derivatives(self, Q[1], Q[2],
                CurrentDensity(self, EmfAt(self, salt, Q[1], Q[2]), RcellAt(self, Q[1], Q[2])))

(***************************************************************************)
(* scipy.integrate.odeint(self.dQdx, self.Qzero, self.x).  The library is  *)
(* not part of the repository; the model keeps its contract: a function of *)
(* its arguments, one row per point of x, the first row equal to y0, every *)
(* later row obtained by integrating dQdx from the row before it (here:    *)
(* SubSteps explicit Euler steps per interval of x, in place of LSODA's    *)
(* adaptive steps).  When dQdx returns a non-finite derivative the         *)
(* integration fails: odeint prints a warning, raises nothing and returns  *)
(* the array it allocated, whose rows from the failure on were never       *)
(* written: they hold whatever the memory held, one of Junk in the model.  *)
(***************************************************************************)
SubSteps == 4

\* one explicit Euler step of length h [1e-5 m] with the derivatives k
EulerStep(Q, k, h) ==
    IF ~IsNum(k[1]) \/ ~IsNum(k[2]) THEN <<NaN, NaN>>
    ELSE <<Q[1] + (k[1] * h) \div 100000, Q[2] + (k[2] * h) \div 100000>>

RECURSIVE EulerSteps(_, _, _, _, _)
EulerSteps(self, salt, Q, h, n) ==
    IF n = 0 \/ ~IsNum(Q[1]) \/ ~IsNum(Q[2]) THEN Q
    ELSE EulerSteps(self, salt, EulerStep(Q, dQdx(self, salt, Q), h), h, n - 1)

RECURSIVE OdeRows(_, _, _)
OdeRows(self, salt, rows) ==
    LET k == Len(rows)
    IN  IF k >= Len(self.x) THEN rows
        ELSE OdeRows(self, salt,
                     Append(rows,
                            EulerSteps(self, salt, rows[k],
                                       ((self.x[k + 1] - self.x[k]) * 100) \div SubSteps,
                                       SubSteps)))

\* the rows LSODA computes; <<NaN, NaN>> marks a row it never reached
lsoda(self, salt) == OdeRows(self, salt, <<self.Qzero>>)

\* the integrator's status (infodict['message']), which solve_system never asks for
OdeintFailed(rows) ==
    \E k \in 1..Len(rows) : ~IsNum(rows[k][1]) \/ ~IsNum(rows[k][2])

\* what a row that was never written can hold
Junk == {NaN, 0}

\* the returned array: the rows computed, junk in the others
Unwritten(rows, junk) ==
    [k \in 1..Len(rows) |-> IF ~IsNum(rows[k][1]) \/ ~IsNum(rows[k][2])
                             THEN <<junk, junk>> ELSE rows[k]]

odeint(self, salt, junk) == Unwritten(lsoda(self, salt), junk)

(***************************************************************************)
(* coFlow_NaCl_outputs.py                                                  *)
(***************************************************************************)
RECURSIVE BasicSimpson(_, _, _, _)
BasicSimpson(y, x, lo, hi) ==
    IF lo + 2 > hi THEN 0
    ELSE ((x[lo + 2] - x[lo]) * (y[lo] + 4 * y[lo + 1] + y[lo + 2])) \div 6
         + BasicSimpson(y, x, lo + 2, hi)

Trapezoid(y, x, i) == ((x[i + 1] - x[i]) * (y[i] + y[i + 1])) \div 2

\* scipy.integrate.simps(y, x): composite Simpson rule; for an even number of
\* samples the average of the two ways of adding one trapezoid (even='avg')
simps(y, x) ==
    LET N == Len(y)
    IN  IF ~AllNum(y) THEN NaN
        ELSE IF N % 2 = 1 THEN BasicSimpson(y, x, 1, N)
        ELSE (BasicSimpson(y, x, 1, N - 1) + Trapezoid(y, x, N - 1)
              + BasicSimpson(y, x, 2, N) + Trapezoid(y, x, 1)) \div 2

\* a variant of PowerDensityAt: the sign of its two terms exchanged
PowerDensityAtNegated(U, E, Rc) ==
    IF ~IsNum(E) \/ ~IsNum(Rc) \/ Rc = 0 THEN NaN
    ELSE (U * U - E * U) \div Rc

\* Pd = (E*U - U**2)/Rcell at one point
PowerDensityAt(U, E, Rcell) ==
    IF ~IsNum(E) \/ ~IsNum(Rcell) \/ Rcell = 0 THEN NaN
    ELSE (E * U - U * U) \div Rcell

\* Pd_avg = simps(Pd, x) / (2 * L), from the integral I
PdAvg(I, L) == IF ~IsNum(I) \/ L = 0 THEN NaN ELSE I \div (2 * L)

\* Power_tot = Pd_avg * (2 * W * L), returned with Pd_avg
PowerTot(Pd_avg, W, L) ==
    << IF ~IsNum(Pd_avg) THEN NaN ELSE Pd_avg * ((2 * W * L) \div 100), Pd_avg >>

\* power_density: <<Power_tot, Pd_avg>>
power_density(Uload, E, Rc, W, L, x) ==
    PowerTot(PdAvg(simps([k \in 1..Len(E) |-> PowerDensityAt(Uload, E[k], Rc[k])], x), L),
             W, L)

(***************************************************************************)
(* exergy_TCPC.py                                                          *)
(***************************************************************************)
\* moles(C, f): [nNa, nCl, nH2O, nTot] in 1e-10 mol s-1
moles(C, f) ==
    LET dens == 99870 + (375 * C) \div 1000              \* [0.01 kg m-3]
        nNa  == (C * f) \div 10
        nCl  == (C * f) \div 10
        nH2O == f * (((dens - (5844 * C) \div 10000) * 1000) \div 1801)
    IN  <<nNa, nCl, nH2O, nNa + nCl + nH2O>>

\* fractions(n): [xNa, xCl, xH2O] scaled by XF; NaN for a division by zero
fractions(n) ==
    LET nTot == n[4] \div 1000
    IN  [k \in 1..3 |-> IF nTot = 0 THEN NaN ELSE MulDiv(n[k], 1000, nTot)]

\* activity(C) of exergy_TCPC.py: NaCl.TCPC(C/1000)
exergy_activity(salt, C) == TCPC(salt, C)

\* x[0]*log(y*x[0]) + x[1]*log(y*x[1]) + x[2]*log(x[2]), scaled by LS * XF
MixingSum(x, y) ==
    FMul(Log(FMul(y, x[1]), XF), x[1]) + FMul(Log(FMul(y, x[2]), XF), x[2])
    + FMul(Log(x[3], XF), x[3])

\* - R * n[3] * s, in 1e-9 W K-1
EntropyRate(nTot, s) ==
    - MulDiv((s \div 1000) * (nTot \div 1000) + ((s % 1000) * (nTot \div 1000)) \div 1000,
             8314, 10000)

\* the entropy rate from n[3], x and y; NaN where the logarithms are not finite
EntropyOf(nTot, x, y) ==
    IF ~AllNum(x) \/ x[1] <= 0 \/ x[2] <= 0 \/ x[3] <= 0 \/ FMul(y, x[1]) <= 0
    THEN NaN
    ELSE EntropyRate(nTot, MixingSum(x, y))

\* entropy(C, f)[3]: the entropy rate, in 1e-9 W K-1
entropy(salt, C, f) ==
    IF ~IsNum(C) \/ C < 0 THEN NaN
    ELSE EntropyOf(moles(C, f)[4], fractions(moles(C, f)), exergy_activity(salt, C))

\* T * (Mix[3] - SW[3] - RW[3])
ExergyOf(T, SW, RW, Mix) ==
    IF ~IsNum(SW) \/ ~IsNum(RW) \/ ~IsNum(Mix) THEN NaN
    ELSE T * (Mix - SW - RW)

\* exergy(T, cSW, cRW, cMix, fSW, fRW, fMix)[1], in 1e-9 W
exergy(salt, T, cSW, cRW, cMix, fSW, fRW, fMix) ==
    ExergyOf(T, entropy(salt, cSW, fSW), entropy(salt, cRW, fRW), entropy(salt, cMix, fMix))

(***************************************************************************)
(* coFlow_NaCl_outputs.py: efficiencies                                    *)
(***************************************************************************)
\* (fSW * cSW + fRW * cRW) / fMix
MixConcentration(cSW, cRW, fSW, fRW) ==
    IF ~IsNum(cSW) \/ ~IsNum(cRW) \/ fRW + fSW = 0 THEN NaN
    ELSE (fSW * cSW + fRW * cRW) \div (fRW + fSW)

\* dG_in of efficiencies
InletExergy(salt, cRW, cSW, fRW, fSW, T) ==
    exergy(salt, T, cSW[1], cRW[1],
           MixConcentration(cSW[1], cRW[1], fSW, fRW), fSW, fRW, fRW + fSW)

\* dG_out of efficiencies
OutletExergy(salt, cRW, cSW, fRW, fSW, T) ==
    exergy(salt, T, cSW[Len(cSW)], cRW[Len(cRW)],
           MixConcentration(cSW[Len(cSW)], cRW[Len(cRW)], fSW, fRW),
           fSW, fRW, fRW + fSW)

\* 100 * Power / dG, a plain double whatever dG is: non-finite when dG is
\* zero at the model's resolution
Percent(Power, dG) ==
    IF ~IsNum(Power) \/ ~IsNum(dG) \/ Trunc(dG, 10000) = 0 THEN NaN
    ELSE Power \div Trunc(dG, 10000)

\* eta_energy = 100 * Power / dG_in and eta_thermo = 100 * Power / (dG_in - dG_out)
Etas(Power, dG_in, dG_out) ==
    << Percent(Power, dG_in),
       Percent(Power, IF ~IsNum(dG_in) \/ ~IsNum(dG_out) THEN NaN ELSE dG_in - dG_out) >>

\* efficiencies: <<eta_energy, eta_thermo>>
efficiencies(salt, cRW, cSW, fRW, fSW, T, Power) ==
    Etas(Power, InletExergy(salt, cRW, cSW, fRW, fSW, T),
         OutletExergy(salt, cRW, cSW, fRW, fSW, T))

(***************************************************************************)
(* model_class.py: CoFlow.solve_system                                     *)
(***************************************************************************)
\* dQdx reads self.a: AttributeError when no membrane branch of __init__ ran;
\* odeint lets the exception of its callback through
SolveRaises(self) == ~self.hasMembrane

\* a variant of SetConcentrations: the columns of the solution assigned to
\* the other stream's attribute
SetConcentrationsSwapped(self, solution) ==
    [self EXCEPT !.cRW = [k \in 1..Len(solution) |-> solution[k][1]],
                 !.cSW = [k \in 1..Len(solution) |-> solution[k][2]],
                 !.unset = @ \ {"cRW", "cSW"}]

\* a variant of SetConcentrations: the inlet pair moved to the outlet of the
\* solved profile
SetConcentrationsMovingInlet(self, solution) ==
    [self EXCEPT !.cRW = [k \in 1..Len(solution) |-> solution[k][2]],
                 !.cSW = [k \in 1..Len(solution) |-> solution[k][1]],
                 !.Qzero = solution[Len(solution)],
                 !.unset = @ \ {"cRW", "cSW"}]

\* self.cRW = solution[:, 1]; self.cSW = solution[:, 0]
SetConcentrations(self, solution) ==
    [self EXCEPT !.cRW = [k \in 1..Len(solution) |-> solution[k][2]],
                 !.cSW = [k \in 1..Len(solution) |-> solution[k][1]],
                 !.unset = @ \ {"cRW", "cSW"}]

\* self.E = preF * np.log(aSW / aRW)
SetE(self, salt) ==
    [self EXCEPT !.E = [k \in 1..Len(self.cSW) |->
                            EmfAt(self, salt, self.cSW[k], self.cRW[k])],
                 !.unset = @ \ {"E"}]

\* self.Rcell = self.Raem + self.Rcem + rRW + rSW
SetRcell(self) ==
    [self EXCEPT !.Rcell = [k \in 1..Len(self.cSW) |->
                                RcellAt(self, self.cSW[k], self.cRW[k])],
                 !.unset = @ \ {"Rcell"}]

\* self.J = (self.E - self.Uload) / self.Rcell
SetJ(self) ==
    [self EXCEPT !.J = [k \in 1..Len(self.E) |->
                            CurrentDensity(self, self.E[k], self.Rcell[k])],
                 !.unset = @ \ {"J"}]

\* self.power, self.pd_avg = pw
StorePower(self, pw) ==
    [self EXCEPT !.power = pw[1], !.pd_avg = pw[2], !.unset = @ \ {"power", "pd_avg"}]

SetPower(self) ==
    StorePower(self, power_density(self.Uload, self.E, self.Rcell, self.W, self.L, self.x))

\* self.eta_energy, self.eta_thermo = eta
StoreEfficiencies(self, eta) ==
    [self EXCEPT !.eta_energy = eta[1], !.eta_thermo = eta[2],
                 !.unset = @ \ {"eta_energy", "eta_thermo"}]

SetEfficiencies(self, salt) ==
    StoreEfficiencies(self, efficiencies(salt, self.cRW, self.cSW, self.fRW, self.fSW,
                                         Temp, self.power))

\* self.solved = True
SetSolved(self) == [self EXCEPT !.solved = TRUE]

\* a variant of solve_system: solve_system returning before its last assignment
solve_system_unflagged(self, salt, junk) ==
    SetEfficiencies(SetPower(SetJ(SetRcell(SetE(
        SetConcentrations(self, odeint(self, salt, junk)), salt)))), salt)

\* the attributes after a call of solve_system that returns: its assignments
\* in the order of the code
solve_system(self, salt, junk) ==
    SetSolved(SetEfficiencies(SetPower(SetJ(SetRcell(SetE(
        SetConcentrations(self, odeint(self, salt, junk)), salt)))), salt))

(***************************************************************************)
(* The callers (main.py builds one CoFlow per run and calls solve_system   *)
(* on it; a parameter sweep builds several).  Two instances, "A" and "B",  *)
(* are built from configurations drawn from Configs and solved in any      *)
(* interleaving.                                                           *)
(***************************************************************************)
Instances == {"A", "B"}

\* solve_system calls per instance
MaxCalls == 2

\* the largest number of domain points
MaxIntervals == 4

Config(tRW, tSW, W, L, d, membranes, Uload, cRW0, cSW0, intervals) ==
    [tRW |-> tRW, tSW |-> tSW, W |-> W, L |-> L, d |-> d, membranes |-> membranes,
     Uload |-> Uload, cRW0 |-> cRW0, cSW0 |-> cSW0, intervals |-> intervals]

\* before the constructor is called
NoConfig == Config(0, 0, 0, 0, 0, "", 0, 0, 0, 0)

NoObject == [live |-> FALSE]

\* sea water against river water, with a load below, near and above the emf
PowerConfigs ==
    { Config(22, 22, 240, 240, 100, IdealName, 8000, 171, 5120, MaxIntervals),
      Config(10, 10, 240, 240, 100, FujifilmName, 8000, 171, 5120, 3),
      Config(22, 22, 240, 240, 100, FujifilmName, 14500, 171, 5120, MaxIntervals),
      Config(10, 10, 240, 240, 100, IdealName, 14000, 500, 3500, 3) }

\* the same water on both sides and no load, for two geometries and pairs of
\* residence times and both membranes
EqualConfigs ==
    { Config(g[1], g[2], g[3], g[4], g[5], m, 0, 3500, 3500, g[6]) :
        g \in {<<22, 10, 240, 240, 100, MaxIntervals>>, <<10, 10, 120, 240, 200, 2>>},
        m \in {IdealName, FujifilmName} }
    \cup { Config(22, 22, 240, 120, 100, FujifilmName, 0, 171, 171, 3) }

\* arguments the constructor takes without a check: an unknown membrane, a
\* negative and a zero residence time, a negative inlet concentration
BadConfigs ==
    { Config(22, 22, 240, 240, 100, "Nafion", 8000, 171, 5120, 3),
      Config(22, -5, 240, 240, 100, IdealName, 8000, 171, 5120, 3),
      Config(22, 0, 240, 240, 100, IdealName, 8000, 171, 5120, 3),
      Config(22, 22, 240, 240, 100, IdealName, 8000, -50, 5120, 3) }

Configs == PowerConfigs \cup EqualConfigs \cup BadConfigs

\* the second instance of a sweep is drawn from fewer configurations
ConfigsOf(i) ==
    IF i = "A" THEN Configs
    ELSE { c \in Configs : c.intervals = 3 /\ c.tSW # 0 }

VARIABLES
    NaCl,          \* exergy_TCPC.NaCl, the module-level salt record
    obj,           \* obj[i]: the attributes of instance i
    cfg,           \* cfg[i]: the arguments instance i was constructed with
    calls,         \* calls[i]: the calls of solve_system on i so far
    odeintCalls,   \* odeintCalls[i]: the calls of odeint made for i so far
    raised,        \* raised[i]: the exception the last operation on i raised
    first          \* first[i]: the results of the first solve_system on i that returned

vars == <<NaCl, obj, cfg, calls, odeintCalls, raised, first>>

\* what a caller reads from a solved instance
Results(o) ==
    [cRW |-> o.cRW, cSW |-> o.cSW, E |-> o.E, Rcell |-> o.Rcell, J |-> o.J,
     power |-> o.power, pd_avg |-> o.pd_avg,
     eta_energy |-> o.eta_energy, eta_thermo |-> o.eta_thermo]

NoResults == [none |-> TRUE]

Init ==
    /\ NaCl = MakeNaCl
    /\ obj = [i \in Instances |-> NoObject]
    /\ cfg = [i \in Instances |-> NoConfig]
    /\ calls = [i \in Instances |-> 0]
    /\ odeintCalls = [i \in Instances |-> 0]
    /\ raised = [i \in Instances |-> "none"]
    /\ first = [i \in Instances |-> NoResults]

\* RED_model = CoFlow(tRW, tSW, W, L, d, membranes, Uload, cRW0, cSW0, intervals)
Construct(i, c) ==
    /\ cfg[i] = NoConfig
    /\ cfg' = [cfg EXCEPT ![i] = c]
    /\ IF InitRaises(c)
       THEN /\ raised' = [raised EXCEPT ![i] = "ZeroDivisionError"]
            /\ obj' = obj
       ELSE /\ raised' = [raised EXCEPT ![i] = "none"]
            /\ obj' = [obj EXCEPT ![i] = NewCoFlow(c)]
    /\ UNCHANGED <<NaCl, calls, odeintCalls, first>>

\* a variant of SolveSystem: solve_system keeping a fitted exponent in the
\* shared salt record
SolveSystemWritingNaCl(i) ==
    /\ obj[i].live
    /\ calls[i] < MaxCalls
    /\ calls' = [calls EXCEPT ![i] = @ + 1]
    /\ odeintCalls' = [odeintCalls EXCEPT ![i] = @ + 1]
    /\ IF SolveRaises(obj[i])
       THEN /\ raised' = [raised EXCEPT ![i] = "AttributeError"]
            /\ obj' = obj
            /\ first' = first
            /\ NaCl' = NaCl
       ELSE /\ raised' = [raised EXCEPT ![i] = "none"]
            /\ \E junk \in Junk : obj' = [obj EXCEPT ![i] = solve_system(obj[i], NaCl, junk)]
            /\ first' = IF first[i] = NoResults
                        THEN [first EXCEPT ![i] = Results(obj'[i])]
                        ELSE first
            /\ NaCl' = [NaCl EXCEPT !.n = obj[i].a * 100]
    /\ UNCHANGED cfg

\* RED_model.solve_system()
SolveSystem(i) ==
    /\ obj[i].live
    /\ calls[i] < MaxCalls
    /\ calls' = [calls EXCEPT ![i] = @ + 1]
    /\ odeintCalls' = [odeintCalls EXCEPT ![i] = @ + 1]
    /\ IF SolveRaises(obj[i])
       THEN /\ raised' = [raised EXCEPT ![i] = "AttributeError"]
            /\ obj' = obj
            /\ first' = first
       ELSE /\ raised' = [raised EXCEPT ![i] = "none"]
            /\ \E junk \in Junk : obj' = [obj EXCEPT ![i] = solve_system(obj[i], NaCl, junk)]
            /\ first' = IF first[i] = NoResults
                        THEN [first EXCEPT ![i] = Results(obj'[i])]
                        ELSE first
    /\ UNCHANGED <<NaCl, cfg>>

Next ==
    \/ \E i \in Instances : \E c \in ConfigsOf(i) : Construct(i, c)
    \/ \E i \in Instances : SolveSystem(i)

Spec == Init /\ [][Next]_vars

(***************************************************************************)
(* Properties.                                                             *)
(***************************************************************************)
\* the constructor was called for instance i
Built(i) == cfg[i] # NoConfig

\* instance i exists and a call of solve_system on it has returned
Solved(i) == obj[i].live /\ obj[i].solved

\* positive residence times and geometry, and one of the two known membranes
Valid(c) ==
    /\ c.tRW > 0 /\ c.tSW > 0 /\ c.W > 0 /\ c.L > 0 /\ c.d > 0
    /\ c.membranes \in {IdealName, FujifilmName}

\* C1: an invalid configuration (a non-positive tRW, tSW, W, L or d, or a
\* membrane choice that is neither of the two known ones) is rejected before
\* integration: odeint is never called for it and it never gets a result.
C1_InvalidRejectedBeforeIntegration ==
    \A i \in Instances :
        Built(i) /\ ~Valid(cfg[i]) =>
            /\ odeintCalls[i] = 0
            /\ obj[i].live => ~obj[i].solved /\ obj[i].unset = ResultFields

\* every concentration of the stored profiles is a number and not negative
PhysicalProfile(o) ==
    \A k \in 1..Len(o.cSW) :
        /\ IsNum(o.cSW[k]) /\ o.cSW[k] >= 0
        /\ IsNum(o.cRW[k]) /\ o.cRW[k] >= 0

\* C2: an integration failure is surfaced: solve_system never finishes with
\* solved = True when the integrator failed or when a concentration of the
\* profile is negative or NaN.
C2_IntegrationFailureSurfaced ==
    \A i \in Instances :
        Solved(i) =>
            /\ ~OdeintFailed(lsoda(NewCoFlow(cfg[i]), NaCl))
            /\ PhysicalProfile(obj[i])

\* dG_in <= 0 or dG_in - dG_out <= 0 (or one of them is not a finite number)
UndefinedRatio(dG_in, dG_out) ==
    \/ ~IsNum(dG_in) \/ ~IsNum(dG_out)
    \/ dG_in <= 0
    \/ dG_in - dG_out <= 0

\* the two efficiencies of instance i are reported as unavailable: the call
\* raised, or the attributes were left unset
EfficienciesUnavailable(i) ==
    \/ raised[i] # "none"
    \/ {"eta_energy", "eta_thermo"} \subseteq obj[i].unset

\* C3: the efficiencies are guarded: when dG_in or dG_in - dG_out is zero or
\* negative they are reported as unavailable, never stored as numbers.
C3_EfficienciesGuarded ==
    \A i \in Instances :
        Solved(i)
        /\ UndefinedRatio(InletExergy(NaCl, obj[i].cRW, obj[i].cSW, obj[i].fRW, obj[i].fSW, Temp),
                          OutletExergy(NaCl, obj[i].cRW, obj[i].cSW, obj[i].fRW, obj[i].fSW, Temp))
        => EfficienciesUnavailable(i)

\* x starts at 0, ends at L and rises by one fixed step
EvenGrid(x, L) ==
    /\ x[1] = 0
    /\ x[Len(x)] = L
    /\ \A k \in 1..(Len(x) - 1) : x[k + 1] > x[k] /\ x[k + 1] - x[k] = x[2] - x[1]

\* C4: after solve_system returns for a valid configuration, x, cSW and cRW
\* have num_intervals entries each, x runs from 0 to L in equal increasing
\* steps, and the profiles start at the inlet concentrations of their own
\* stream: cSW[0] = cSW0 and cRW[0] = cRW0.
C4_ProfilesShapedAndAnchored ==
    \A i \in Instances :
        Solved(i) /\ Valid(cfg[i]) =>
            /\ Len(obj[i].x) = cfg[i].intervals
            /\ Len(obj[i].cSW) = cfg[i].intervals
            /\ Len(obj[i].cRW) = cfg[i].intervals
            /\ EvenGrid(obj[i].x, cfg[i].L)
            /\ obj[i].cSW[1] = cfg[i].cSW0
            /\ obj[i].cRW[1] = cfg[i].cRW0

\* C4's case: a valid configuration with different inlet concentrations and
\* the largest number of points has been solved
C4_Witness ==
    \E i \in Instances :
        /\ Solved(i) /\ Valid(cfg[i])
        /\ cfg[i].cSW0 # cfg[i].cRW0
        /\ cfg[i].intervals = MaxIntervals
        /\ obj[i].cSW[MaxIntervals] # obj[i].cSW[1]

\* the attributes solve_system reads
Inputs(o) ==
    [tRW |-> o.tRW, tSW |-> o.tSW, W |-> o.W, L |-> o.L, d |-> o.d,
     fSW |-> o.fSW, fRW |-> o.fRW, hasMembrane |-> o.hasMembrane,
     Raem |-> o.Raem, Rcem |-> o.Rcem, a |-> o.a, Dnacl |-> o.Dnacl,
     Dw |-> o.Dw, Hm |-> o.Hm, Keosm |-> o.Keosm,
     Uload |-> o.Uload, cSW0 |-> o.cSW0, cRW0 |-> o.cRW0,
     Qzero |-> o.Qzero, x |-> o.x]

\* the inlet concentrations are positive: the integration is defined
PositiveInlets(c) == c.cSW0 > 0 /\ c.cRW0 > 0

C6_OneShotLifecycle ==
    [][\A i \in Instances :
          /\ ~obj[i].live /\ obj'[i].live => ~obj'[i].solved
          /\ Solved(i) => /\ obj'[i].solved
                          /\ odeintCalls'[i] = odeintCalls[i]
                          /\ obj'[i] = obj[i]]_vars

\* C7: no partial result is observable.  While solved is False every result
\* attribute is unset, also after a solve_system that raised; once solved is
\* True every one of them is set.
C7_ResultsAllOrNothing ==
    \A i \in Instances :
        obj[i].live =>
            /\ ~obj[i].solved => obj[i].unset = ResultFields
            /\ obj[i].solved => obj[i].unset = {}

\* C7's case: a solve_system that raised on one instance, and one that
\* returned on another
C7_Witness ==
    \E i, j \in Instances :
        /\ obj[i].live /\ calls[i] > 0 /\ raised[i] = "AttributeError" /\ ~obj[i].solved
        /\ Solved(j) /\ Len(obj[j].E) = cfg[j].intervals

\* the step is not an operation on instance i
Untouched(i) == cfg'[i] = cfg[i] /\ calls'[i] = calls[i]

\* the results of instance i are those of a solve of its configuration alone
SolvedAlone(o, c) ==
    \E junk \in Junk : Results(o) = Results(solve_system(NewCoFlow(c), MakeNaCl, junk))

\* C8: runs are independent.  A step on one instance leaves every other
\* instance as it was, the results of an instance are those it gets when it
\* is solved alone, and the shared salt record NaCl is never written.
C8_RunsIndependent ==
    [][/\ NaCl' = NaCl /\ NaCl = MakeNaCl
       /\ \A i \in Instances :
             /\ Untouched(i) => obj'[i] = obj[i] /\ first'[i] = first[i] /\ raised'[i] = raised[i]
             /\ obj'[i].live /\ obj'[i].solved => SolvedAlone(obj'[i], cfg'[i])]_vars

\* C8's case: both instances solved, from different configurations, the
\* second one solved after the first
C8_Witness ==
    /\ \A i \in Instances : Solved(i) /\ IsNum(obj[i].power) /\ obj[i].power # 0
    /\ cfg["A"] # cfg["B"]
    /\ calls["A"] = 2 /\ calls["B"] = 1

\* the same water on both sides, and no load
EqualInlets(c) == c.cSW0 = c.cRW0 /\ c.cSW0 > 0 /\ c.Uload = 0

\* C9: with equal positive inlet concentrations and Uload = 0, whatever the
\* membranes, the residence times and the geometry, dQdx at the inlet gives
\* zero derivatives, and after solve_system E and J are 0 at every point and
\* both profiles equal the inlet concentration at every point.
C9_NoDrivingForce ==
    \A i \in Instances :
        Solved(i) /\ Valid(cfg[i]) /\ EqualInlets(cfg[i]) =>
            /\ dQdx(obj[i], NaCl, obj[i].Qzero) = <<0, 0>>
            /\ \A k \in 1..Len(obj[i].x) :
                  /\ obj[i].E[k] = 0
                  /\ obj[i].J[k] = 0
                  /\ obj[i].cSW[k] = cfg[i].cSW0
                  /\ obj[i].cRW[k] = cfg[i].cRW0

\* C9's case: both membrane variants solved with equal inlets and no load,
\* with different residence times on one of them
C9_Witness ==
    \E i, j \in Instances :
        /\ Solved(i) /\ Valid(cfg[i]) /\ EqualInlets(cfg[i])
        /\ cfg[i].membranes = IdealName /\ cfg[i].tRW # cfg[i].tSW
        /\ Len(obj[i].E) = MaxIntervals
        /\ Solved(j) /\ Valid(cfg[j]) /\ EqualInlets(cfg[j])
        /\ cfg[j].membranes = FujifilmName /\ cfg[j].cSW0 # cfg[i].cSW0

\* every cell resistance of the solved profile is a positive number
PositiveResistance(o) == \A k \in 1..Len(o.Rcell) : IsNum(o.Rcell[k]) /\ o.Rcell[k] > 0

\* the open-circuit voltage of the stack: the emf of the inlet concentrations
OpenCircuitVoltage(o) == o.E[1]

\* C10 as stated: for a solved profile with positive cell resistance, the
\* power is not negative when 0 <= Uload <= open-circuit voltage.
C10_PowerNonNegativeBelowOpenCircuit ==
    \A i \in Instances :
        Solved(i) /\ Valid(cfg[i]) /\ PositiveInlets(cfg[i]) /\ PositiveResistance(obj[i])
        /\ 0 <= obj[i].Uload /\ obj[i].Uload <= OpenCircuitVoltage(obj[i])
        => obj[i].power >= 0

\* Uload is at most the emf at every point of the domain
BelowEmfEverywhere(o) == \A k \in 1..Len(o.E) : IsNum(o.E[k]) /\ o.Uload <= o.E[k]

\* C10, amended: for a solved profile with positive cell resistance, the
\* power and the average power density are not negative when Uload is
\* between 0 and the emf E at every point of the domain.
C10_PowerNonNegativeBelowEmfEverywhere ==
    \A i \in Instances :
        Solved(i) /\ Valid(cfg[i]) /\ PositiveInlets(cfg[i]) /\ PositiveResistance(obj[i])
        /\ 0 <= obj[i].Uload /\ BelowEmfEverywhere(obj[i])
        => obj[i].power >= 0 /\ obj[i].pd_avg >= 0

\* C10's case: a load between 0 and the emf of every point, the emf falling
\* along the domain, and power produced
C10_Witness ==
    \E i \in Instances :
        /\ Solved(i) /\ Valid(cfg[i]) /\ PositiveResistance(obj[i])
        /\ obj[i].Uload > 0 /\ BelowEmfEverywhere(obj[i])
        /\ obj[i].E[Len(obj[i].E)] < obj[i].E[1]
        /\ obj[i].power > 0

\* |v|
Magnitude(v) == IF v < 0 THEN -v ELSE v

\* J as dQdx computes it for the pair (cSW, cRW)
CurrentAt(self, salt, cSW, cRW) ==
    CurrentDensity(self, EmfAt(self, salt, cSW, cRW), RcellAt(self, cSW, cRW))

\* fSW * dcSWdx + fRW * dcRWdx - W * Tw * (cSW - cRW), in 1e-11 mol s-1 m-1
SaltImbalance(self, cSW, cRW, dQ, Tw) ==
    self.fSW * dQ[1] + self.fRW * dQ[2] - MulDiv(self.W * Tw, cSW - cRW, 10000)

\* what the roundings of one evaluation of dQdx can add to the imbalance: each
\* of the divisions by fSW loses less than |fSW|, each by fRW less than |fRW|,
\* the products c * Tw less than |W|
BalanceRounding(self) ==
    Magnitude(self.fSW) + Magnitude(self.fRW) + Magnitude(self.W) + 1

\* dQdx moves salt between the compartments without creating or destroying
\* it: fSW * dcSWdx + fRW * dcRWdx = W * Tw * (cSW - cRW), up to rounding
SaltOnlyTransferred(self, cSW, cRW, dQ, Tw) ==
    /\ IsNum(dQ[1]) /\ IsNum(dQ[2])
    /\ Magnitude(SaltImbalance(self, cSW, cRW, dQ, Tw)) <= BalanceRounding(self)

\* fSW * cSW(x) + fRW * cRW(x) at the k-th point of the domain
TotalSaltFlow(o, k) == o.fSW * o.cSW[k] + o.fRW * o.cRW[k]

\* what the roundings of the integration up to the last point can add to the
\* total salt flow: less than one unit of each concentration per step, and
\* the rounding of dQdx over the step
ProfileRounding(o) ==
    2 * (Len(o.x) - 1) * SubSteps * (Magnitude(o.fSW) + Magnitude(o.fRW))

\* every concentration of the solved profile is a positive number
PositiveProfile(o) ==
    \A k \in 1..Len(o.cSW) :
        /\ IsNum(o.cSW[k]) /\ o.cSW[k] > 0
        /\ IsNum(o.cRW[k]) /\ o.cRW[k] > 0

\* the total salt flow is the same at every point of the domain, up to rounding
SaltFlowConstant(o) ==
    \A k \in 1..Len(o.x) :
        Magnitude(TotalSaltFlow(o, k) - TotalSaltFlow(o, 1)) <= ProfileRounding(o)

\* with J > 0 and cSW > cRW the sea water loses salt along x and the river
\* water gains it
SeaToRiver(cSW, cRW, J, dQ) ==
    IsNum(J) /\ J > 0 /\ cSW > cRW => dQ[1] < 0 /\ dQ[2] > 0

\* the membranes neither leak salt nor pass water
IdealMembrane(o) == o.Dnacl = 0 /\ o.Dw = 0 /\ o.Keosm = 0

\* what C11 says of dQdx at the pair (cSW, cRW), with the J dQdx computes
TransferAt(self, salt, cSW, cRW, J) ==
    /\ SaltOnlyTransferred(self, cSW, cRW, dQdx(self, salt, <<cSW, cRW>>),
                           WaterFlux(self, J, cSW, cRW))
    /\ IdealMembrane(self) => WaterFlux(self, J, cSW, cRW) = 0
    /\ SeaToRiver(cSW, cRW, J, dQdx(self, salt, <<cSW, cRW>>))

\* C11: dQdx transfers salt from the sea water to the river water without
\* creating or destroying it.  At every pair of positive concentrations of a
\* solved profile fSW * dcSWdx + fRW * dcRWdx = W * Tw * (cSW - cRW); with the
\* ideal membranes Tw = 0 and the total salt flow fSW * cSW + fRW * cRW is the
\* same at every point of the domain; and wherever J > 0 and cSW > cRW, cSW
\* decreases and cRW increases along x.
C11_SaltTransferredNotCreated ==
    \A i \in Instances :
        Solved(i) /\ PositiveProfile(obj[i]) =>
            /\ \A k \in 1..Len(obj[i].x) :
                  TransferAt(obj[i], NaCl, obj[i].cSW[k], obj[i].cRW[k],
                             CurrentAt(obj[i], NaCl, obj[i].cSW[k], obj[i].cRW[k]))
            /\ IdealMembrane(obj[i]) => SaltFlowConstant(obj[i])

=============================================================================
